---- MODULE Spec2Model ----
(***************************************************************************)
(* A model of the quota-guarded, cached access layer of google-reviews     *)
(* (lib/google: file cache, rate-limit lockout, guardedFetch and the three *)
(* fetchers) and of the countdown / auto-retry state of the dashboard page.*)
(*                                                                         *)
(* Strings the code computes with are sequences of one-character strings,  *)
(* so that replace() and the file-name sanitisation act character by       *)
(* character as they do in the code.  Time is Date.now() in milliseconds.  *)
(***************************************************************************)
EXTENDS Integers, Sequences, FiniteSets, Bags, TLC

VARIABLES
    now,        \* Date.now(), milliseconds
    advances,   \* number of clock advances taken so far (bounds the run)
    files,      \* CACHE_DIR: file name -> serialised content, NoFile if absent
    calls,      \* bag of the fetcher invocations suspended at an await
    ev,         \* what the last server step did and returned to its caller
    seen429,    \* times at which a 429 was received whose 60 s window is still open
    faults,     \* the file-system calls that throw at present
    written,    \* cache API: key -> the last setCache(key, ...) whose TTL still runs
    apiEv,      \* cache API: the last call made and what it returned
    derived,    \* key derivation: the requests derived so far, with key and file
    countdown,      \* page state `countdown`
    pendingAction,  \* page state `pendingAction`: the held retry, NoAction if null
    error,          \* page state `error`: which message is shown, "null" if none
    countdownRef,   \* countdownRef.current holds an interval handle
    intervals,      \* number of setInterval timers alive
    effectPending,  \* a render changed countdown or pendingAction; its effect has not run
    inflight,       \* bag of the page's load calls suspended at `await fetch`
    quotaErrors,    \* number of handleQuotaError calls so far; numbers the held actions
    invoked,        \* numbers of the held actions the countdown effect has invoked
    replaced,       \* numbers of the held actions overwritten while pending
    dismissed,      \* numbers of the held actions discarded by the dismiss button
    cev,            \* what the last step of the page was
    quotaAt         \* page and server together: when the page last received a quota
                    \* error, by the server's clock; -1 before the first

serverVars == <<now, advances, files, calls, ev, seen429, faults>>
cacheApiVars == <<written, apiEv>>
keyVars == <<derived>>
clientVars ==
    <<countdown, pendingAction, error, countdownRef, intervals, effectPending,
      inflight, quotaErrors, invoked, replaced, dismissed, cev>>
retryVars == <<quotaAt>>
vars == <<now, advances, files, calls, ev, seen429, faults, written, apiEv, derived,
          countdown, pendingAction, error, countdownRef, intervals, effectPending,
          inflight, quotaErrors, invoked, replaced, dismissed, cev, quotaAt>>

\* what the steps of one part leave alone: the state of the other parts
ServerFrame == UNCHANGED <<cacheApiVars, keyVars, clientVars, retryVars>>
CacheApiFrame == UNCHANGED <<calls, ev, seen429, faults, keyVars, clientVars, retryVars>>
KeysFrame == UNCHANGED <<serverVars, cacheApiVars, clientVars, retryVars>>
ClientFrame == UNCHANGED <<serverVars, cacheApiVars, keyVars, retryVars>>

(***************************************************************************)
(* Bounds of the model.                                                    *)
(***************************************************************************)
MaxCalls == 2
MaxAdvances == 2
MaxInFlight == 2
MaxQuotaErrors == 2

(***************************************************************************)
(* Program constants: lib/google lines 34-36.                              *)
(***************************************************************************)
CACHE_TTL == 10 * 60 * 1000
LOCKOUT_TTL == 60 * 1000
LOCKOUT_FILE ==
    <<"_", "r", "a", "t", "e", "_", "l", "i", "m", "i", "t", "_",
      "l", "o", "c", "k", "o", "u", "t", ".", "j", "s", "o", "n">>

(***************************************************************************)
(* JavaScript values.                                                      *)
(***************************************************************************)
Null == "null"
Undefined == <<"undefined">>       \* no string: strings hold one character per element
EmptyString == <<>>
NoFile == <<"ENOENT">>             \* no content: contents have at least four elements
Corrupt == <<"{\"da">>             \* what a write that failed half way leaves: not JSON

Max(a, b) == IF a >= b THEN a ELSE b

\* a || b on numbers
OrElse(a, b) == IF a = 0 THEN b ELSE a
\* Math.floor(ms / 1000), in place of the code's Math.ceil
Floor1000(ms) == ms \div 1000
Ceil1000(ms) == (ms + 999) \div 1000

(***************************************************************************)
(* Strings.                                                                *)
(***************************************************************************)
Lower == {"a", "b", "c", "d", "e", "f", "g", "h", "i", "j", "k", "l", "m",
          "n", "o", "p", "q", "r", "s", "t", "u", "v", "w", "x", "y", "z"}
Upper == {"A", "B", "C", "D", "E", "F", "G", "H", "I", "J", "K", "L", "M",
          "N", "O", "P", "Q", "R", "S", "T", "U", "V", "W", "X", "Y", "Z"}
Digit == {"0", "1", "2", "3", "4", "5", "6", "7", "8", "9"}

\* the characters the regular expression /[^a-zA-Z0-9_-]/ leaves alone
SafeChars == Lower \cup Upper \cup Digit \cup {"_", "-"}

\* s.replace(/\//g, '_')
ReplaceSlashes(s) == [i \in 1..Len(s) |-> IF s[i] = "/" THEN "_" ELSE s[i]]

\* key.replace(/[^a-zA-Z0-9_-]/g, '_')
SanitizeKey(key) == [i \in 1..Len(key) |-> IF key[i] \in SafeChars THEN key[i] ELSE "_"]

StrAccounts == <<"a", "c", "c", "o", "u", "n", "t", "s">>
StrLocations == <<"l", "o", "c", "a", "t", "i", "o", "n", "s">>
StrReviews == <<"r", "e", "v", "i", "e", "w", "s">>
StrFirst == <<"f", "i", "r", "s", "t">>
StrDotJson == <<".", "j", "s", "o", "n">>

\* JavaScript truthiness of an optional string: undefined and '' are falsy
TruthyString(s) == s # Undefined /\ s # EmptyString

\* path.join(CACHE_DIR, `${safeKey}.json`), as the file's name inside CACHE_DIR
getCacheFilePath(key) == SanitizeKey(key) \o StrDotJson

\* the cacheKey each fetcher derives from its parameters
accountsKey == StrAccounts
locationsKey(accountId) == StrLocations \o <<"_">> \o ReplaceSlashes(accountId)
reviewsKey(accountId, locationId, pageToken) ==
    StrReviews \o <<"_">> \o ReplaceSlashes(accountId) \o <<"_">>
        \o ReplaceSlashes(locationId) \o <<"_">>
        \o (IF TruthyString(pageToken) THEN pageToken ELSE StrFirst)

\* a key derivation that also depends on the bearer credential
CacheKey_PerCredential(req) ==
    (CASE req.kind = "accounts" -> accountsKey
       [] req.kind = "locations" -> locationsKey(req.accountId)
       [] req.kind = "reviews" -> reviewsKey(req.accountId, req.locationId, req.pageToken))
        \o <<"_", IF req.accessToken = "tokenX" THEN "X" ELSE "Y">>

\* a request: the fetcher called and its arguments
CacheKey(req) ==
    CASE req.kind = "accounts" -> accountsKey
      [] req.kind = "locations" -> locationsKey(req.accountId)
      [] req.kind = "reviews" -> reviewsKey(req.accountId, req.locationId, req.pageToken)

CacheFile(req) == getCacheFilePath(CacheKey(req))

(***************************************************************************)
(* JSON.  An object is serialised as the sequence of its member names and  *)
(* values, and parsed back into a function from member name to value.      *)
(***************************************************************************)
JsonStringifyEntry(entry) == <<"data", entry.data, "expiry", entry.expiry>>
JsonStringifyLockout(entry) == <<"expiry", entry.expiry, "setAt", entry.setAt>>

JsonParse(raw) ==
    LET n == Len(raw) \div 2
        names == {raw[2 * i - 1] : i \in 1..n}
    IN  [m \in names |-> raw[2 * (CHOOSE i \in 1..n : raw[2 * i - 1] = m)]]

(***************************************************************************)
(* Inputs.  Identifiers are abbreviated: a/1 stands for accounts/1 and l/1 *)
(* for locations/1.  Upstream payloads are JSON objects, which JavaScript  *)
(* treats as truthy.                                                       *)
(***************************************************************************)
AccessTokens == {"tokenX", "tokenY"}
NoCookie == "no cookie"            \* cookieStore.get('google_access_token') is undefined
Payloads == {"payload1", "payload2"}
Statuses == {200, 429, 500}

\* what `await res.json()` meets in the body of a failure response: text that is
\* not JSON, the JSON value null, an object without an `error` member, and
\* Google's error object, which carries a message and may carry a retry hint
BodyNotJson == "not json"
BodyJsonNull == "json null"
BodyEmptyObject == "{}"
BodyGoogleError == "{error: {message, details: [{retryDelay: 30s}]}}"
ErrorBodies == {BodyNotJson, BodyJsonNull, BodyEmptyObject, BodyGoogleError}

\* the bodies a response can carry, by the place the fetcher reads it at
ResponseBodies(pc) == IF pc = "bodyOk" THEN Payloads ELSE ErrorBodies

\* the messages of the errors the access layer throws
MsgLockoutActive(seconds) == <<"Rate limit active. Please wait", seconds, "seconds.">>
MsgRateLimitExceeded(seconds) == <<"Rate limit exceeded. Please wait", seconds, "seconds.">>
MsgUpstream == <<"body.error.message">>
MsgFailedToFetch(kind) == <<"Failed to fetch", kind>>
MsgTypeError == <<"TypeError: Cannot read properties of null">>
MsgSyntaxError == <<"SyntaxError: Unexpected token">>
MsgQuotaExceeded == <<"Quota exceeded for quota metric">>
MsgFetchFailed == <<"TypeError: Failed to fetch">>
NoMessage == <<>>

AcctSlash1 == <<"a", "/", "1">>
AcctUnder1 == <<"a", "_", "1">>
LocSlash1 == <<"l", "/", "1">>

AccountsReq(tok) ==
    [kind |-> "accounts", accountId |-> Undefined, locationId |-> Undefined,
     pageToken |-> Undefined, accessToken |-> tok]
LocationsReq(tok, accountId) ==
    [kind |-> "locations", accountId |-> accountId, locationId |-> Undefined,
     pageToken |-> Undefined, accessToken |-> tok]
ReviewsReq(tok, accountId, locationId, pageToken) ==
    [kind |-> "reviews", accountId |-> accountId, locationId |-> locationId,
     pageToken |-> pageToken, accessToken |-> tok]
NoReq ==
    [kind |-> "none", accountId |-> Undefined, locationId |-> Undefined,
     pageToken |-> Undefined, accessToken |-> "none"]

\* the requests the routes are driven with: two resources, one of them asked
\* for with two credentials, and both asked for without the cookie
ServerRequests ==
    {AccountsReq("tokenX"), LocationsReq("tokenX", AcctSlash1),
     LocationsReq("tokenY", AcctSlash1), AccountsReq(NoCookie),
     LocationsReq(NoCookie, AcctSlash1)}

CacheFileNames == {CacheFile(r) : r \in ServerRequests}
FileNames == CacheFileNames \cup {LOCKOUT_FILE}

(***************************************************************************)
(* File-system calls that throw.  While "read" is in faults readFileSync   *)
(* throws; while "unlink" is, unlinkSync does; while "write" is, mkdirSync *)
(* or writeFileSync does, leaving the file as it was, or, with "torn",     *)
(* cut short.  JSON.parse throws on a file cut short.                      *)
(***************************************************************************)
FaultSets == {{}, {"read"}, {"unlink"}, {"write"}, {"write", "torn"}}

\* readFileSync followed by JSON.parse throws
ReadThrows(content) == "read" \in faults \/ content = Corrupt
UnlinkThrows == "unlink" \in faults
WriteThrows == "write" \in faults

\* fs.writeFileSync(filePath, text) inside a try block: the file afterwards
WriteFile(fs, filePath, text) ==
    IF WriteThrows
    THEN IF "torn" \in faults THEN [fs EXCEPT ![filePath] = Corrupt] ELSE fs
    ELSE [fs EXCEPT ![filePath] = text]

(***************************************************************************)
(* The file cache: getCached and setCache.  fs is the directory's content. *)
(***************************************************************************)
\* getCached that reports a stale record absent and leaves it in place
getCached_NoEvict(fs, key, t) ==
    LET filePath == getCacheFilePath(key) IN
    IF fs[filePath] = NoFile
    THEN [value |-> Null, fs |-> fs]
    ELSE LET entry == JsonParse(fs[filePath]) IN
         IF t > entry["expiry"]
         THEN [value |-> Null, fs |-> fs]
         ELSE [value |-> entry["data"], fs |-> fs]

\* getCached that hands out a stale record when it cannot delete it
getCached_StaleOnUnlinkFailure(fs, key, t) ==
    LET filePath == getCacheFilePath(key) IN
    IF fs[filePath] = NoFile
    THEN [value |-> Null, fs |-> fs]
    ELSE IF ReadThrows(fs[filePath])
    THEN [value |-> Null, fs |-> fs]
    ELSE LET entry == JsonParse(fs[filePath]) IN
         IF t > entry["expiry"] /\ ~UnlinkThrows
         THEN [value |-> Null, fs |-> [fs EXCEPT ![filePath] = NoFile]]
         ELSE [value |-> entry["data"], fs |-> fs]

\* getCached that gives a record it returns a fresh TTL
getCached_SlidingExpiry(fs, key, t) ==
    LET filePath == getCacheFilePath(key) IN
    IF fs[filePath] = NoFile
    THEN [value |-> Null, fs |-> fs]
    ELSE IF ReadThrows(fs[filePath])
    THEN [value |-> Null, fs |-> fs]
    ELSE LET entry == JsonParse(fs[filePath]) IN
         IF t > entry["expiry"]
         THEN [value |-> Null,
               fs |-> IF UnlinkThrows THEN fs ELSE [fs EXCEPT ![filePath] = NoFile]]
         ELSE [value |-> entry["data"],
               fs |-> [fs EXCEPT ![filePath] =
                          JsonStringifyEntry([data |-> entry["data"],
                                              expiry |-> t + CACHE_TTL])]]

\* getCached(key) at time t: the value returned and the directory afterwards
getCached(fs, key, t) ==
    LET filePath == getCacheFilePath(key) IN
    IF fs[filePath] = NoFile
    THEN [value |-> Null, fs |-> fs]
    ELSE IF ReadThrows(fs[filePath])
    THEN [value |-> Null, fs |-> fs]
    ELSE LET entry == JsonParse(fs[filePath]) IN
         IF t > entry["expiry"]
         THEN [value |-> Null,
               fs |-> IF UnlinkThrows THEN fs ELSE [fs EXCEPT ![filePath] = NoFile]]
         ELSE [value |-> entry["data"], fs |-> fs]

\* setCache that keeps every record for the length of the lockout only
setCache_LockoutTtl(fs, key, data, ttlMs, t) ==
    LET filePath == getCacheFilePath(key)
        entry == [data |-> data, expiry |-> t + LOCKOUT_TTL]
    IN  [fs EXCEPT ![filePath] = JsonStringifyEntry(entry)]

\* setCache(key, data, ttlMs) at time t: the directory afterwards
setCache(fs, key, data, ttlMs, t) ==
    LET filePath == getCacheFilePath(key)
        entry == [data |-> data, expiry |-> t + ttlMs]
    IN  WriteFile(fs, filePath, JsonStringifyEntry(entry))

(***************************************************************************)
(* The rate-limit lockout: isLockedOut and setLockout.                     *)
(***************************************************************************)
\* isLockedOut with the expiry test off by one millisecond at its early side:
\* the record is dropped while one millisecond of the window remains
isLockedOut_ExpiresEarly(fs, t) ==
    IF fs[LOCKOUT_FILE] = NoFile
    THEN [locked |-> FALSE, remainingSeconds |-> 0, fs |-> fs]
    ELSE LET lockout == JsonParse(fs[LOCKOUT_FILE])
             remaining == lockout["expiry"] - t
         IN  IF remaining <= 1
             THEN [locked |-> FALSE, remainingSeconds |-> 0,
                   fs |-> [fs EXCEPT ![LOCKOUT_FILE] = NoFile]]
             ELSE [locked |-> TRUE, remainingSeconds |-> Ceil1000(remaining), fs |-> fs]

\* isLockedOut with `remaining < 0` for `remaining <= 0`: still locked at the expiry
isLockedOut_ExpiresLate(fs, t) ==
    IF fs[LOCKOUT_FILE] = NoFile
    THEN [locked |-> FALSE, remainingSeconds |-> 0, fs |-> fs]
    ELSE LET lockout == JsonParse(fs[LOCKOUT_FILE])
             remaining == lockout["expiry"] - t
         IN  IF remaining < 0
             THEN [locked |-> FALSE, remainingSeconds |-> 0,
                   fs |-> [fs EXCEPT ![LOCKOUT_FILE] = NoFile]]
             ELSE [locked |-> TRUE, remainingSeconds |-> Ceil1000(remaining), fs |-> fs]

\* isLockedOut that starts the cool-down afresh whenever it rejects a call
isLockedOut_SlidingWindow(fs, t) ==
    IF fs[LOCKOUT_FILE] = NoFile
    THEN [locked |-> FALSE, remainingSeconds |-> 0, fs |-> fs]
    ELSE IF ReadThrows(fs[LOCKOUT_FILE])
    THEN [locked |-> FALSE, remainingSeconds |-> 0, fs |-> fs]
    ELSE LET lockout == JsonParse(fs[LOCKOUT_FILE])
             remaining == lockout["expiry"] - t
         IN  IF remaining <= 0
             THEN [locked |-> FALSE, remainingSeconds |-> 0,
                   fs |-> IF UnlinkThrows THEN fs
                          ELSE [fs EXCEPT ![LOCKOUT_FILE] = NoFile]]
             ELSE [locked |-> TRUE, remainingSeconds |-> Ceil1000(remaining),
                   fs |-> [fs EXCEPT ![LOCKOUT_FILE] =
                              JsonStringifyLockout([expiry |-> t + LOCKOUT_TTL,
                                                    setAt |-> t])]]

\* isLockedOut() at time t: what it returns and the directory afterwards
isLockedOut(fs, t) ==
    IF fs[LOCKOUT_FILE] = NoFile
    THEN [locked |-> FALSE, remainingSeconds |-> 0, fs |-> fs]
    ELSE IF ReadThrows(fs[LOCKOUT_FILE])
    THEN [locked |-> FALSE, remainingSeconds |-> 0, fs |-> fs]
    ELSE LET lockout == JsonParse(fs[LOCKOUT_FILE])
             remaining == lockout["expiry"] - t
         IN  IF remaining <= 0
             THEN [locked |-> FALSE, remainingSeconds |-> 0,
                   fs |-> IF UnlinkThrows THEN fs
                          ELSE [fs EXCEPT ![LOCKOUT_FILE] = NoFile]]
             ELSE [locked |-> TRUE, remainingSeconds |-> Ceil1000(remaining), fs |-> fs]

\* setLockout that adds the cool-down to the expiry of a record still running
setLockout_Accumulate(fs, t) ==
    LET from == IF fs[LOCKOUT_FILE] \in {NoFile, Corrupt} THEN t
                ELSE Max(t, JsonParse(fs[LOCKOUT_FILE])["expiry"])
        entry == [expiry |-> from + LOCKOUT_TTL, setAt |-> t]
    IN  WriteFile(fs, LOCKOUT_FILE, JsonStringifyLockout(entry))

\* setLockout() at time t: the directory afterwards
setLockout(fs, t) ==
    LET entry == [expiry |-> t + LOCKOUT_TTL, setAt |-> t]
    IN  WriteFile(fs, LOCKOUT_FILE, JsonStringifyLockout(entry))

\* JavaScript truthiness of what getCached returns (null, or a JSON object)
Truthy(v) == v # Null

(***************************************************************************)
(* The access layer as a state machine.  A fetcher runs without            *)
(* interruption up to `await fetch`, then up to `await res.json()`, then   *)
(* to its end; other invocations and the clock act in between.             *)
(***************************************************************************)
\* a suspended invocation: where it waits, and its arguments
Suspended(pc, req, cacheKey) == [pc |-> pc, req |-> req, cacheKey |-> cacheKey]
Resume(bag, call) == bag (-) SetToBag({call})
Suspend(bag, call) == bag (+) SetToBag({call})

\* the response of a route: its status and the members of its JSON body
NoResponse == [status |-> 0, error |-> NoMessage, retryAfter |-> 0, data |-> Null]

NoEvent ==
    [op |-> "none", req |-> NoReq, cacheKey |-> EmptyString, hit |-> FALSE,
     evicted |-> FALSE, lockoutChecked |-> FALSE, lockoutCleared |-> FALSE,
     upstream |-> FALSE, outcome |-> "none", value |-> Null, statusCode |-> 0,
     retryAfter |-> 0, message |-> NoMessage, pc |-> "none", response |-> NoResponse,
     order |-> <<>>]

LockoutExists == files[LOCKOUT_FILE] # NoFile
LockoutExpiry == JsonParse(files[LOCKOUT_FILE])["expiry"]
CacheRecordExists(f) == files[f] # NoFile
CacheRecord(f) == JsonParse(files[f])

ServerInit ==
    /\ now = 0
    /\ advances = 0
    /\ files = [f \in FileNames |-> NoFile]
    /\ calls = EmptyBag
    /\ ev = NoEvent
    /\ seen429 = {}
    /\ faults = {}

\* a fetcher that asks the lockout guard before it looks into the cache
fetcherSync_LockoutFirst(fs, req, t) ==
    LET lockout == isLockedOut(fs, t)
        cacheKey == CacheKey(req)
        got == getCached(lockout.fs, cacheKey, t)
        base == [NoEvent EXCEPT !.op = "fetch", !.req = req, !.cacheKey = cacheKey,
                                !.evicted = (got.fs # lockout.fs),
                                !.lockoutChecked = TRUE,
                                !.order = <<"isLockedOut", "getCached">>]
    IN  IF lockout.locked
        THEN [fs |-> lockout.fs, suspend |-> FALSE,
              ev |-> [base EXCEPT !.outcome = "quota", !.statusCode = 429,
                                  !.order = <<"isLockedOut">>,
                                  !.retryAfter = lockout.remainingSeconds,
                                  !.message = MsgLockoutActive(lockout.remainingSeconds)]]
        ELSE IF Truthy(got.value)
        THEN [fs |-> got.fs, suspend |-> FALSE,
              ev |-> [base EXCEPT !.hit = TRUE, !.outcome = "ok", !.value = got.value]]
        ELSE [fs |-> got.fs, suspend |-> TRUE,
              ev |-> [base EXCEPT !.lockoutCleared = (fs[LOCKOUT_FILE] # NoFile),
                                  !.upstream = TRUE, !.outcome = "pending"]]

\* a fetcher that empties the cache when the lockout rejects it
fetcherSync_PurgeOnQuota(fs, req, t) ==
    LET cacheKey == CacheKey(req)
        got == getCached(fs, cacheKey, t)
        lockout == isLockedOut(got.fs, t)
        base == [NoEvent EXCEPT !.op = "fetch", !.req = req, !.cacheKey = cacheKey,
                                !.evicted = (got.fs # fs),
                                !.order = <<"getCached", "isLockedOut">>]
    IN  IF Truthy(got.value)
        THEN [fs |-> got.fs, suspend |-> FALSE,
              ev |-> [base EXCEPT !.hit = TRUE, !.outcome = "ok", !.value = got.value,
                                  !.order = <<"getCached">>]]
        ELSE IF lockout.locked
        THEN [fs |-> [f \in DOMAIN fs |-> IF f = LOCKOUT_FILE THEN fs[f] ELSE NoFile],
              suspend |-> FALSE,
              ev |-> [base EXCEPT !.lockoutChecked = TRUE, !.outcome = "quota",
                                  !.statusCode = 429,
                                  !.retryAfter = lockout.remainingSeconds,
                                  !.message = MsgLockoutActive(lockout.remainingSeconds)]]
        ELSE [fs |-> lockout.fs, suspend |-> TRUE,
              ev |-> [base EXCEPT !.lockoutChecked = TRUE,
                                  !.lockoutCleared = (got.fs[LOCKOUT_FILE] # NoFile),
                                  !.upstream = TRUE, !.outcome = "pending"]]

\* fetchAccounts / fetchLocations / fetchReviews up to `await fetch(url, options)`
\* inside guardedFetch, or to the return or throw that comes before it:
\* getCached, `if (cached) return cached`, then guardedFetch's isLockedOut
fetcherSync(fs, req, t) ==
    LET cacheKey == CacheKey(req)
        got == getCached(fs, cacheKey, t)
        lockout == isLockedOut(got.fs, t)
        base == [NoEvent EXCEPT !.op = "fetch", !.req = req, !.cacheKey = cacheKey,
                                !.evicted = (got.fs # fs),
                                !.order = <<"getCached", "isLockedOut">>]
    IN  IF Truthy(got.value)
        THEN [fs |-> got.fs, suspend |-> FALSE,
              ev |-> [base EXCEPT !.hit = TRUE, !.outcome = "ok", !.value = got.value,
                                  !.order = <<"getCached">>]]
        ELSE IF lockout.locked
        THEN [fs |-> lockout.fs, suspend |-> FALSE,
              ev |-> [base EXCEPT !.lockoutChecked = TRUE, !.outcome = "quota",
                                  !.statusCode = 429,
                                  !.retryAfter = lockout.remainingSeconds,
                                  !.message = MsgLockoutActive(lockout.remainingSeconds)]]
        ELSE [fs |-> lockout.fs, suspend |-> TRUE,
              ev |-> [base EXCEPT !.lockoutChecked = TRUE,
                                  !.lockoutCleared = (got.fs[LOCKOUT_FILE] # NoFile),
                                  !.upstream = TRUE, !.outcome = "pending"]]

(***************************************************************************)
(* The routes /api/accounts, /api/locations and /api/reviews: GET checks   *)
(* the cookie and the ids, awaits the fetcher and turns what it returns or *)
(* throws into the response.                                               *)
(***************************************************************************)
MsgNotAuthenticated == <<"Not authenticated">>
MsgIdRequired == <<"Account ID is required">>

\* err.retryAfter || 120 in the accounts route, || 60 in the other two
DefaultRetryAfter(kind) == IF kind = "accounts" THEN 120 ELSE 60

\* the route's `return NextResponse.json(data)`
RouteReturn(e) == [NoResponse EXCEPT !.status = 200, !.data = e.value]

\* a catch block that answers every quota error with the route's default wait
RouteCatch_DefaultWait(kind, e) ==
    IF e.statusCode = 429
    THEN [NoResponse EXCEPT !.status = 429, !.error = e.message,
                            !.retryAfter = DefaultRetryAfter(kind)]
    ELSE [NoResponse EXCEPT !.status = 500,
                            !.error = IF e.message # NoMessage THEN e.message
                                      ELSE MsgFailedToFetch(kind)]

\* the route's catch block
RouteCatch(kind, e) ==
    IF e.statusCode = 429
    THEN [NoResponse EXCEPT !.status = 429, !.error = e.message,
                            !.retryAfter = OrElse(e.retryAfter, DefaultRetryAfter(kind))]
    ELSE [NoResponse EXCEPT !.status = 500,
                            !.error = IF e.message # NoMessage THEN e.message
                                      ELSE MsgFailedToFetch(kind)]

\* what the route answers once its fetcher has returned or thrown
Routed(e) ==
    CASE e.outcome = "ok" -> [e EXCEPT !.response = RouteReturn(e)]
      [] e.outcome \in {"quota", "error"} -> [e EXCEPT !.response = RouteCatch(e.req.kind, e)]
      [] OTHER -> e

\* a route that calls its fetcher before it looks at the cookie
routeSync_FetchFirst(fs, req, t) ==
    LET run == fetcherSync(fs, req, t)
    IN  IF req.accessToken = NoCookie /\ ~run.suspend
        THEN [run EXCEPT !.ev = [run.ev EXCEPT !.response =
                                    [NoResponse EXCEPT !.status = 401,
                                                       !.error = MsgNotAuthenticated]]]
        ELSE [run EXCEPT !.ev = Routed(run.ev)]

\* GET up to the first await that suspends it, or to its return
routeSync(fs, req, t) ==
    IF req.accessToken = NoCookie
    THEN [fs |-> fs, suspend |-> FALSE,
          ev |-> [NoEvent EXCEPT !.op = "route", !.req = req,
                                 !.response = [NoResponse EXCEPT
                                                  !.status = 401,
                                                  !.error = MsgNotAuthenticated]]]
    ELSE IF \/ req.kind \in {"locations", "reviews"} /\ ~TruthyString(req.accountId)
            \/ req.kind = "reviews" /\ ~TruthyString(req.locationId)
    THEN [fs |-> fs, suspend |-> FALSE,
          ev |-> [NoEvent EXCEPT !.op = "route", !.req = req,
                                 !.response = [NoResponse EXCEPT
                                                  !.status = 400,
                                                  !.error = MsgIdRequired]]]
    ELSE LET run == fetcherSync(fs, req, t)
         IN  [run EXCEPT !.ev = Routed(run.ev)]

\* a request arrives at a route: GET runs to the `await fetch` of its fetcher,
\* or to its response
FetchStart(req) ==
    /\ BagCardinality(calls) < MaxCalls
    /\ LET run == routeSync(files, req, now)
       IN  /\ files' = run.fs
           /\ ev' = run.ev
           /\ calls' = IF run.suspend
                       THEN Suspend(calls, Suspended("fetching", req, run.ev.cacheKey))
                       ELSE calls
    /\ UNCHANGED <<now, advances, seen429, faults>>
    /\ ServerFrame

\* guardedFetch after `await fetch`: the response's status is known
UpstreamRespond(call, status) ==
    /\ BagIn(call, calls)
    /\ call.pc = "fetching"
    /\ ev' = [NoEvent EXCEPT !.op = "response", !.req = call.req,
                             !.cacheKey = call.cacheKey,
                             !.statusCode = status, !.outcome = "pending"]
    /\ IF status = 429
       THEN /\ files' = setLockout(files, now)
            /\ seen429' = seen429 \cup {now}
            /\ calls' = Suspend(Resume(calls, call),
                                Suspended("body429", call.req, call.cacheKey))
       ELSE /\ files' = files
            /\ seen429' = seen429
            /\ calls' = Suspend(Resume(calls, call),
                                Suspended(IF status = 200 THEN "bodyOk" ELSE "bodyError",
                                          call.req, call.cacheKey))
    /\ UNCHANGED <<now, advances, faults>>
    /\ ServerFrame

\* guardedFetch lines 146-151, after `await res.json().catch(() => ({}))` of a
\* 429 response: what is thrown.  body.error on the JSON value null is a
\* TypeError; text that is not JSON is caught and read as {}
guarded429(body) ==
    LET retryAfter == Ceil1000(LOCKOUT_TTL) IN
    IF body = BodyJsonNull
    THEN [outcome |-> "error", statusCode |-> 0, retryAfter |-> 0, message |-> MsgTypeError]
    ELSE [outcome |-> "quota", statusCode |-> 429, retryAfter |-> retryAfter,
          message |-> IF body = BodyGoogleError THEN MsgUpstream
                      ELSE MsgRateLimitExceeded(retryAfter)]

\* a fetcher that reports every failure status as a quota error
fetcherNotOk_AsQuota(kind, body) ==
    [outcome |-> "quota", statusCode |-> 429, retryAfter |-> Ceil1000(LOCKOUT_TTL),
     message |-> MsgFailedToFetch(kind)]

\* the `if (!res.ok)` branch of a fetcher, after `await res.json()`: the Error
\* thrown, or the rejection or TypeError that takes its place
fetcherNotOk(kind, body) ==
    [outcome |-> "error", statusCode |-> 0, retryAfter |-> 0,
     message |-> CASE body = BodyNotJson -> MsgSyntaxError
                   [] body = BodyJsonNull -> MsgTypeError
                   [] body = BodyGoogleError -> MsgUpstream
                   [] OTHER -> MsgFailedToFetch(kind)]

\* a fetcher whose failed cache write fails the call
fetcherOk_WriteFailureThrows(fs, cacheKey, data, t) ==
    IF WriteThrows
    THEN [fs |-> setCache(fs, cacheKey, data, CACHE_TTL, t), outcome |-> "error",
          value |-> Null]
    ELSE [fs |-> setCache(fs, cacheKey, data, CACHE_TTL, t), outcome |-> "ok",
          value |-> data]

\* a fetcher that stores its payload only where no record exists yet
fetcherOk_FirstWriteWins(fs, cacheKey, data, t) ==
    [fs |-> IF fs[getCacheFilePath(cacheKey)] = NoFile
            THEN setCache(fs, cacheKey, data, CACHE_TTL, t) ELSE fs,
     outcome |-> "ok", value |-> data]

\* the end of a fetcher after a success response:
\* const data = await res.json(); setCache(cacheKey, data); return data
fetcherOk(fs, cacheKey, data, t) ==
    [fs |-> setCache(fs, cacheKey, data, CACHE_TTL, t), outcome |-> "ok", value |-> data]

\* after `await res.json()`: the fetcher stores and returns the payload, or
\* throws, and the route answers
BodyRead(call, body) ==
    /\ BagIn(call, calls)
    /\ call.pc \in {"body429", "bodyOk", "bodyError"}
    /\ body \in ResponseBodies(call.pc)
    /\ LET base == [NoEvent EXCEPT !.op = "body", !.req = call.req,
                                   !.cacheKey = call.cacheKey, !.pc = call.pc]
           thrown == IF call.pc = "body429" THEN guarded429(body)
                     ELSE fetcherNotOk(call.req.kind, body)
       IN  IF call.pc = "bodyOk"
           THEN LET done == fetcherOk(files, call.cacheKey, body, now)
                IN  /\ files' = done.fs
                    /\ ev' = Routed([base EXCEPT !.outcome = done.outcome,
                                                 !.value = done.value])
           ELSE /\ files' = files
                /\ ev' = Routed([base EXCEPT !.outcome = thrown.outcome,
                                             !.statusCode = thrown.statusCode,
                                             !.retryAfter = thrown.retryAfter,
                                             !.message = thrown.message])
    /\ calls' = Resume(calls, call)
    /\ UNCHANGED <<now, advances, seen429, faults>>
    /\ ServerFrame

\* the times worth visiting next: the last millisecond before the lockout's
\* expiry and the expiry itself; a cache record's expiry and the millisecond after
ExpiryIn(f) == JsonParse(files[f])["expiry"]
NextTimes ==
    {t \in UNION {IF f = LOCKOUT_FILE
                  THEN {ExpiryIn(f) - 1, ExpiryIn(f)}
                  ELSE {ExpiryIn(f), ExpiryIn(f) + 1} :
                  f \in {g \in DOMAIN files : files[g] \notin {NoFile, Corrupt}}} :
        t > now}

AdvanceClock(t) ==
    /\ advances < MaxAdvances
    /\ t \in NextTimes
    /\ now' = t
    /\ advances' = advances + 1
    /\ seen429' = {s \in seen429 : s + LOCKOUT_TTL > t}
    /\ ev' = NoEvent
    /\ UNCHANGED <<files, calls, faults>>
    /\ ServerFrame

ServerNext ==
    \/ \E req \in ServerRequests : FetchStart(req)
    \/ \E call \in BagToSet(calls), status \in Statuses : UpstreamRespond(call, status)
    \/ \E call \in BagToSet(calls), body \in Payloads \cup ErrorBodies : BodyRead(call, body)
    \/ \E t \in NextTimes : AdvanceClock(t)

(***************************************************************************)
(* The access layer on storage that fails: the same steps, and a step of   *)
(* the environment that changes which file-system calls throw.             *)
(***************************************************************************)
FaultRequests == {AccountsReq("tokenX")}

SetFaults(F) ==
    /\ F # faults
    /\ faults' = F
    /\ ev' = NoEvent
    /\ UNCHANGED <<now, advances, files, calls, seen429>>
    /\ ServerFrame

FaultsNext ==
    \/ \E req \in FaultRequests : FetchStart(req)
    \/ \E call \in BagToSet(calls), status \in Statuses : UpstreamRespond(call, status)
    \/ \E call \in BagToSet(calls), body \in Payloads \cup ErrorBodies : BodyRead(call, body)
    \/ \E t \in NextTimes : AdvanceClock(t)
    \/ \E F \in FaultSets : SetFaults(F)

(***************************************************************************)
(* The access layer before an upstream that answers each bearer credential *)
(* with that credential's own data: payload1 belongs to tokenX, payload2   *)
(* to tokenY.                                                              *)
(***************************************************************************)
PayloadOf(accessToken) == IF accessToken = "tokenX" THEN "payload1" ELSE "payload2"

\* what `await res.json()` gives a call from this upstream
TenantBodies(call) ==
    IF call.pc = "bodyOk" THEN {PayloadOf(call.req.accessToken)} ELSE ErrorBodies

TenantsNext ==
    \/ \E req \in ServerRequests : FetchStart(req)
    \/ \E call \in BagToSet(calls), status \in Statuses : UpstreamRespond(call, status)
    \/ \E call \in BagToSet(calls) : \E body \in TenantBodies(call) : BodyRead(call, body)
    \/ \E t \in NextTimes : AdvanceClock(t)

(***************************************************************************)
(* The cache's two functions called directly, with any key, value and TTL. *)
(***************************************************************************)
NoWrite == [data |-> Null, at |-> 0, ttlMs |-> -1]
NoApiEvent == [op |-> "none", key |-> EmptyString, value |-> Null]

\* keys whose files coincide (the page tokens t+ and t/) and one apart from them
ApiKeys ==
    {reviewsKey(AcctSlash1, LocSlash1, <<"t", "+">>),
     reviewsKey(AcctSlash1, LocSlash1, <<"t", "/">>),
     accountsKey}
ApiTtls == {1000, CACHE_TTL}

CacheApiParked == written = <<>> /\ apiEv = NoApiEvent
CacheApiInit ==
    /\ now = 0
    /\ advances = 0
    /\ files = [f \in {getCacheFilePath(k) : k \in ApiKeys} |-> NoFile]
    /\ written = [k \in ApiKeys |-> NoWrite]
    /\ apiEv = NoApiEvent

SetCacheCall(key, data, ttlMs) ==
    /\ files' = setCache(files, key, data, ttlMs, now)
    /\ written' = [written EXCEPT ![key] = [data |-> data, at |-> now, ttlMs |-> ttlMs]]
    /\ apiEv' = [op |-> "setCache", key |-> key, value |-> Null]
    /\ UNCHANGED <<now, advances>>
    /\ CacheApiFrame

GetCachedCall(key) ==
    /\ LET got == getCached(files, key, now)
       IN  /\ files' = got.fs
           /\ apiEv' = [op |-> "getCached", key |-> key, value |-> got.value]
    /\ UNCHANGED <<now, advances, written>>
    /\ CacheApiFrame

CacheApiClock(t) ==
    /\ advances < MaxAdvances
    /\ t \in NextTimes
    /\ now' = t
    /\ advances' = advances + 1
    /\ apiEv' = NoApiEvent
    /\ written' = [k \in DOMAIN written |->
                      IF t < written[k].at + written[k].ttlMs THEN written[k] ELSE NoWrite]
    /\ UNCHANGED files
    /\ CacheApiFrame

CacheApiNext ==
    \/ \E key \in ApiKeys, data \in Payloads, ttlMs \in ApiTtls : SetCacheCall(key, data, ttlMs)
    \/ \E key \in ApiKeys : GetCachedCall(key)
    \/ \E t \in NextTimes : CacheApiClock(t)

(***************************************************************************)
(* The fetchers' key derivation on its own: the key and the file name that *)
(* each of two fetcher calls computes from its arguments.                  *)
(***************************************************************************)
KeyAccountIds == {AcctSlash1, AcctUnder1, <<"a">>}
KeyLocationIds == {LocSlash1, <<"l">>, <<"1", "_", "l">>}
KeyPageTokens == {Undefined, EmptyString, StrFirst, <<"t", "+">>, <<"t", "/">>, <<"t", "-">>}

KeyRequests ==
    {AccountsReq(tok) : tok \in AccessTokens}
        \cup {LocationsReq(tok, a) : tok \in AccessTokens, a \in KeyAccountIds}
        \cup {ReviewsReq(tok, a, l, p) :
                 tok \in AccessTokens, a \in KeyAccountIds, l \in KeyLocationIds,
                 p \in KeyPageTokens}

NotDerived == [req |-> NoReq, cacheKey |-> EmptyString, file |-> EmptyString]

KeysInit == derived = [i \in {1, 2} |-> NotDerived]

\* the first statement of a fetcher, and the getCacheFilePath of its getCached
DeriveKey(i, req) ==
    /\ derived[i] = NotDerived
    /\ \A j \in {1, 2} : j < i => derived[j] # NotDerived
    /\ derived' = [derived EXCEPT ![i] =
                      [req |-> req, cacheKey |-> CacheKey(req),
                       file |-> getCacheFilePath(CacheKey(req))]]
    /\ KeysFrame

KeysNext == \E i \in {1, 2}, req \in KeyRequests : DeriveKey(i, req)

(***************************************************************************)
(* The dashboard page: countdown, held retry and displayed error.          *)
(*                                                                         *)
(* A step is one callback of the page running to its end with the render   *)
(* that follows it: a load function up to `await fetch`, a load function   *)
(* from the response to its end, the interval callback, the dismiss        *)
(* button.  When the render changed `countdown` or `pendingAction`, the    *)
(* countdown effect runs next, before any other callback.  The user may    *)
(* start any load at any time.                                             *)
(***************************************************************************)
RETRY_FLOOR == 60

\* the messages `error` can hold
MsgQuotaAuto == "rate limit, auto retry"     \* set by handleQuotaError
MsgFriendlyRateLimit == "rate limit, wait"   \* friendlyError: quota or rate-limit text
MsgFriendlyAuth == "session expired"         \* friendlyError: not authenticated
MsgOther == "other"                          \* any other text, shown as it is

\* error?.includes('rate limit')
IncludesRateLimit(msg) == msg \in {MsgQuotaAuto, MsgFriendlyRateLimit}

\* friendlyError of the texts a failed load can carry
friendlyError(msg) ==
    CASE \/ msg = MsgQuotaExceeded
         \/ \E n \in 0..120 : msg \in {MsgLockoutActive(n), MsgRateLimitExceeded(n)} ->
            MsgFriendlyRateLimit
      [] msg = MsgNotAuthenticated -> MsgFriendlyAuth
      [] OTHER -> MsgOther

\* the load calls the page makes: loadAccounts(), loadLocations(accountId),
\* loadReviews(accountId, locationId, pageToken)
LoadCall(kind, accountId, locationId, pageToken) ==
    [kind |-> kind, accountId |-> accountId, locationId |-> locationId,
     pageToken |-> pageToken]
LoadAccountsCall == LoadCall("accounts", Undefined, Undefined, Undefined)
LoadLocationsCall == LoadCall("locations", AcctSlash1, Undefined, Undefined)
LoadMoreReviewsCall == LoadCall("reviews", AcctSlash1, LocSlash1, <<"t", "-">>)
UserLoads == {LoadLocationsCall, LoadMoreReviewsCall}

\* retryAfter in a 429 response's body; 0 stands for a body without it
RetryHints == {0, 30, 60, 61}

\* what a load's `await fetch` and `await res.json()` can give it: the status
\* and the body's error and retryAfter members; status 0 stands for a fetch or
\* a res.json() that throws
ClientResponse(status, text, retryAfter) ==
    [status |-> status, error |-> text, retryAfter |-> retryAfter]
ClientResponses ==
    {ClientResponse(200, NoMessage, 0),
     ClientResponse(401, MsgNotAuthenticated, 0),
     ClientResponse(400, MsgIdRequired, 0),
     ClientResponse(500, MsgQuotaExceeded, 0),
     ClientResponse(500, NoMessage, 0),
     ClientResponse(0, MsgFetchFailed, 0)}
        \cup {ClientResponse(429, MsgLockoutActive(r), r) : r \in RetryHints}

\* a load function that starts the countdown on every failure status
loadContinuation_RetryAll(response) ==
    CASE response.status = 0 ->
            [do |-> "catch", message |-> response.error, retryAfter |-> 0]
      [] response.status \in 200..299 ->
            [do |-> "setData", message |-> NoMessage, retryAfter |-> 0]
      [] OTHER ->
            [do |-> "handleQuotaError", message |-> NoMessage,
             retryAfter |-> OrElse(response.retryAfter, 60)]

\* a load function from the response on: which of its three ends it takes
\* (handleQuotaError and return; throw into its catch block; set the data)
loadContinuation(response) ==
    CASE response.status = 0 ->
            [do |-> "catch", message |-> response.error, retryAfter |-> 0]
      [] response.status = 429 ->
            [do |-> "handleQuotaError", message |-> NoMessage,
             retryAfter |-> OrElse(response.retryAfter, 60)]
      [] response.status \notin 200..299 ->
            [do |-> "catch", retryAfter |-> 0,
             message |-> IF response.error # NoMessage THEN response.error
                         ELSE MsgFailedToFetch("data")]
      [] OTHER -> [do |-> "setData", message |-> NoMessage, retryAfter |-> 0]

\* a load suspended at `await fetch`: its arguments and what its closure sees
\* in `error`
Load(call, sawRateLimit) == [call |-> call, sawRateLimit |-> sawRateLimit]

NoAction == [id |-> 0, call |-> LoadCall("none", Undefined, Undefined, Undefined),
             sawRateLimit |-> FALSE, failed |-> LoadCall("none", Undefined, Undefined, Undefined)]
NoClientEvent == [op |-> "none", hint |-> 0, id |-> 0, status |-> -1]

\* a retryFn that starts again from the first page
RetryFn_FirstPage(load) ==
    LoadCall(load.call.kind, load.call.accountId, load.call.locationId, Undefined)

\* the retryFn each load function hands to handleQuotaError: loadAccounts
\* itself, () => loadLocations(accountId), () => loadReviews(accountId,
\* locationId, pageToken)
RetryFn(load) ==
    CASE load.call.kind = "accounts" -> LoadAccountsCall
      [] load.call.kind = "locations" ->
            LoadCall("locations", load.call.accountId, Undefined, Undefined)
      [] load.call.kind = "reviews" ->
            LoadCall("reviews", load.call.accountId, load.call.locationId,
                     load.call.pageToken)

\* handleQuotaError without the floor on the wait
handleQuotaError_NoFloor(retryAfter, retryFn) ==
    [countdown |-> retryAfter, pendingAction |-> retryFn, error |-> MsgQuotaAuto]

\* handleQuotaError(retryAfter, retryFn): the three states it sets
handleQuotaError(retryAfter, retryFn) ==
    [countdown |-> Max(retryAfter, RETRY_FLOOR), pendingAction |-> retryFn,
     error |-> MsgQuotaAuto]

\* an interval callback that counts two seconds for one
TickUpdate_TwoAtATime(prev) == Max(0, prev - 2)

\* the interval callback's update, prev => Math.max(0, prev - 1)
TickUpdate(prev) == Max(0, prev - 1)

\* a cleanup that forgets the handle without clearing the interval
EffectCleanup_Leak(ref, timers) == [ref |-> FALSE, timers |-> timers]

\* the cleanup the effect returned when it last ran with countdown > 0
EffectCleanup(ref, timers) ==
    IF ref THEN [ref |-> FALSE, timers |-> timers - 1] ELSE [ref |-> ref, timers |-> timers]

\* an effect that stops the timer at zero and invokes nothing
EffectBody_NoRetry(ref, timers, cd, action) ==
    IF cd <= 0
    THEN [ref |-> FALSE, timers |-> IF ref THEN timers - 1 ELSE timers,
          invoke |-> FALSE]
    ELSE [ref |-> TRUE, timers |-> IF ref THEN timers ELSE timers + 1,
          invoke |-> FALSE]

\* the effect's body: what it does to the interval, and whether it invokes
\* the held action
EffectBody(ref, timers, cd, action) ==
    IF cd <= 0
    THEN [ref |-> FALSE, timers |-> IF ref THEN timers - 1 ELSE timers,
          invoke |-> action # NoAction]
    ELSE [ref |-> TRUE, timers |-> IF ref THEN timers ELSE timers + 1,
          invoke |-> FALSE]

ClientInit ==
    /\ countdown = 0
    /\ pendingAction = NoAction
    /\ error = Null
    /\ countdownRef = FALSE
    /\ intervals = 0
    /\ effectPending = FALSE
    /\ inflight = SetToBag({Load(LoadAccountsCall, FALSE)})
    /\ quotaErrors = 0
    /\ invoked = {}
    /\ replaced = {}
    /\ dismissed = {}
    /\ cev = NoClientEvent
    /\ quotaAt = -1

\* room for one more load, keeping a place for the held action's
Room ==
    BagCardinality(inflight) + (IF pendingAction # NoAction THEN 1 ELSE 0) < MaxInFlight

\* handleAccountChange / the load-more button: loadLocations or loadReviews up
\* to `await fetch`
UserLoad(call) ==
    /\ ~effectPending
    /\ Room
    /\ error' = Null
    /\ inflight' = inflight (+) SetToBag({Load(call, IncludesRateLimit(error))})
    /\ cev' = [NoClientEvent EXCEPT !.op = "load"]
    /\ UNCHANGED <<countdown, pendingAction, countdownRef, intervals, effectPending,
                   quotaErrors, invoked, replaced, dismissed>>
    /\ ClientFrame

\* the retry button, shown with an error and no countdown:
\* setError(null); loadAccounts()
RetryButton ==
    /\ ~effectPending
    /\ Room
    /\ error # Null
    /\ countdown = 0
    /\ error' = Null
    /\ inflight' = inflight (+) SetToBag({Load(LoadAccountsCall, IncludesRateLimit(error))})
    /\ cev' = [NoClientEvent EXCEPT !.op = "load"]
    /\ UNCHANGED <<countdown, pendingAction, countdownRef, intervals, effectPending,
                   quotaErrors, invoked, replaced, dismissed>>
    /\ ClientFrame

\* a load after `await fetch` and `await res.json()`: status 429
RespondQuota(load, response) ==
    /\ ~effectPending
    /\ BagIn(load, inflight)
    /\ quotaErrors < MaxQuotaErrors
    /\ loadContinuation(response).do = "handleQuotaError"
    /\ LET id == quotaErrors + 1
           set == handleQuotaError(loadContinuation(response).retryAfter, RetryFn(load))
       IN  /\ countdown' = set.countdown
           /\ pendingAction' = [id |-> id, call |-> set.pendingAction,
                                sawRateLimit |-> load.sawRateLimit, failed |-> load.call]
           /\ error' = set.error
           /\ quotaErrors' = id
           /\ replaced' = IF pendingAction # NoAction
                          THEN replaced \cup {pendingAction.id} ELSE replaced
           /\ cev' = [op |-> "quota", hint |-> response.retryAfter, id |-> id,
                      status |-> response.status]
    /\ inflight' = inflight (-) SetToBag({load})
    /\ effectPending' = TRUE
    /\ UNCHANGED <<countdownRef, intervals, invoked, dismissed>>
    /\ ClientFrame

\* a load after `await fetch` and `await res.json()`: a success status
RespondOk(load, response) ==
    /\ ~effectPending
    /\ BagIn(load, inflight)
    /\ loadContinuation(response).do = "setData"
    /\ inflight' = inflight (-) SetToBag({load})
    /\ cev' = [NoClientEvent EXCEPT !.op = "ok", !.status = response.status]
    /\ UNCHANGED <<countdown, pendingAction, error, countdownRef, intervals,
                   effectPending, quotaErrors, invoked, replaced, dismissed>>
    /\ ClientFrame

\* a load whose fetch or res.json() throws, or whose status is another failure
RespondFailure(load, response) ==
    /\ ~effectPending
    /\ BagIn(load, inflight)
    /\ loadContinuation(response).do = "catch"
    /\ inflight' = inflight (-) SetToBag({load})
    /\ error' = IF ~load.sawRateLimit
                THEN friendlyError(loadContinuation(response).message) ELSE error
    /\ cev' = [NoClientEvent EXCEPT !.op = "failure", !.status = response.status]
    /\ UNCHANGED <<countdown, pendingAction, countdownRef, intervals, effectPending,
                   quotaErrors, invoked, replaced, dismissed>>
    /\ ClientFrame

\* the interval callback: setCountdown((prev) => Math.max(0, prev - 1))
Tick ==
    /\ ~effectPending
    /\ intervals > 0
    /\ countdown' = TickUpdate(countdown)
    /\ effectPending' = (countdown' # countdown)
    /\ cev' = [NoClientEvent EXCEPT !.op = "tick"]
    /\ UNCHANGED <<pendingAction, error, countdownRef, intervals, inflight,
                   quotaErrors, invoked, replaced, dismissed>>
    /\ ClientFrame

\* a dismiss handler that clears the alert and the countdown only
DismissUpdate_KeepAction(action) == [error |-> Null, countdown |-> 0, pendingAction |-> action]

\* the dismiss button's handler:
\* setError(null); setCountdown(0); setPendingAction(null)
DismissUpdate(action) == [error |-> Null, countdown |-> 0, pendingAction |-> NoAction]

\* the dismiss button of the alert, shown while `error` is set
Dismiss ==
    /\ ~effectPending
    /\ error # Null
    /\ LET set == DismissUpdate(pendingAction)
       IN  /\ error' = set.error
           /\ countdown' = set.countdown
           /\ pendingAction' = set.pendingAction
           /\ dismissed' = IF pendingAction # NoAction /\ set.pendingAction # pendingAction
                           THEN dismissed \cup {pendingAction.id} ELSE dismissed
           /\ effectPending' = (set.countdown # countdown \/ set.pendingAction # pendingAction)
    /\ cev' = [NoClientEvent EXCEPT !.op = "dismiss"]
    /\ UNCHANGED <<countdownRef, intervals, inflight, quotaErrors, invoked, replaced>>
    /\ ClientFrame

\* the countdown effect: the cleanup of its last run, then its body; the held
\* action, when invoked, runs its load function up to `await fetch`
CountdownEffect ==
    /\ effectPending
    /\ LET clean == EffectCleanup(countdownRef, intervals)
           body == EffectBody(clean.ref, clean.timers, countdown, pendingAction)
       IN  /\ countdownRef' = body.ref
           /\ intervals' = body.timers
           /\ IF body.invoke
              THEN /\ pendingAction' = NoAction
                   /\ error' = Null
                   /\ inflight' = inflight (+)
                          SetToBag({Load(pendingAction.call, pendingAction.sawRateLimit)})
                   /\ invoked' = invoked \cup {pendingAction.id}
                   /\ effectPending' = TRUE
                   /\ cev' = [NoClientEvent EXCEPT !.op = "retry", !.id = pendingAction.id]
              ELSE /\ UNCHANGED <<pendingAction, error, inflight, invoked>>
                   /\ effectPending' = FALSE
                   /\ cev' = [NoClientEvent EXCEPT !.op = "effect"]
    /\ UNCHANGED <<countdown, quotaErrors, replaced, dismissed>>
    /\ ClientFrame

ClientNext ==
    \/ \E call \in UserLoads : UserLoad(call)
    \/ RetryButton
    \/ \E load \in BagToSet(inflight), response \in ClientResponses :
          RespondQuota(load, response)
    \/ \E load \in BagToSet(inflight), response \in ClientResponses :
          RespondOk(load, response)
    \/ \E load \in BagToSet(inflight), response \in ClientResponses :
          RespondFailure(load, response)
    \/ Tick
    \/ Dismiss
    \/ CountdownEffect

(***************************************************************************)
(* The page and its routes together, on one clock.  The page's loads go to *)
(* the routes with tokenX; a request reaches its route, and a response the *)
(* page, without delay, which is the earliest an automatic retry can reach *)
(* the lockout check.  The interval fires 1000 ms after the effect set it; *)
(* while it runs, time passes by its ticks only.  Other clients' requests  *)
(* are seen by what they leave in the cache directory.                     *)
(***************************************************************************)
\* fetch('/api/accounts'), fetch(`/api/locations?accountId=...`),
\* fetch(`/api/reviews?...`): the request a load call sends
ReqOfLoad(call) ==
    [kind |-> call.kind, accountId |-> call.accountId, locationId |-> call.locationId,
     pageToken |-> call.pageToken, accessToken |-> "tokenX"]

\* res.status and `await res.json()` of a route's response, as the load sees them
ToClient(response) == ClientResponse(response.status, response.error, response.retryAfter)

\* a load's `await fetch`: its request reaches the route, which runs to its
\* fetcher's `await fetch` or to its response
PageRequest(load) ==
    /\ ~effectPending
    /\ BagIn(load, inflight)
    /\ calls = EmptyBag
    /\ ev.response = NoResponse
    /\ FetchStart(ReqOfLoad(load.call))

\* the load function from the route's response to its end
Deliver(load) ==
    /\ ~effectPending
    /\ BagIn(load, inflight)
    /\ ev.response # NoResponse
    /\ ev.req = ReqOfLoad(load.call)
    /\ LET then == loadContinuation(ToClient(ev.response))
           id == quotaErrors + 1
           set == handleQuotaError(then.retryAfter, RetryFn(load))
       IN  IF then.do = "handleQuotaError"
           THEN /\ quotaErrors < MaxQuotaErrors
                /\ countdown' = set.countdown
                /\ pendingAction' = [id |-> id, call |-> set.pendingAction,
                                     sawRateLimit |-> load.sawRateLimit,
                                     failed |-> load.call]
                /\ error' = set.error
                /\ quotaErrors' = id
                /\ replaced' = IF pendingAction # NoAction
                               THEN replaced \cup {pendingAction.id} ELSE replaced
                /\ effectPending' = TRUE
                /\ quotaAt' = now
                /\ cev' = [op |-> "quota", hint |-> ev.response.retryAfter, id |-> id,
                           status |-> ev.response.status]
           ELSE /\ error' = IF then.do = "catch" /\ ~load.sawRateLimit
                            THEN friendlyError(then.message) ELSE error
                /\ cev' = [NoClientEvent EXCEPT
                              !.op = IF then.do = "catch" THEN "failure" ELSE "ok",
                              !.status = ev.response.status]
                /\ UNCHANGED <<countdown, pendingAction, quotaErrors, replaced,
                               effectPending, quotaAt>>
    /\ inflight' = inflight (-) SetToBag({load})
    /\ ev' = NoEvent
    /\ UNCHANGED <<now, advances, files, calls, seen429, faults, countdownRef,
                   intervals, invoked, dismissed, cacheApiVars, keyVars>>

\* the interval callback, 1000 ms after the effect started the interval
SecondTick ==
    /\ ~effectPending
    /\ intervals > 0
    /\ countdown' = TickUpdate(countdown)
    /\ effectPending' = (countdown' # countdown)
    /\ cev' = [NoClientEvent EXCEPT !.op = "tick"]
    /\ now' = now + 1000
    /\ seen429' = {s \in seen429 : s + LOCKOUT_TTL > now'}
    /\ ev' = NoEvent
    /\ UNCHANGED <<advances, files, calls, faults, pendingAction, error, countdownRef,
                   intervals, inflight, quotaErrors, invoked, replaced, dismissed,
                   quotaAt, cacheApiVars, keyVars>>

\* another client's guarded call receives a 429: guardedFetch calls setLockout
Other429 ==
    /\ advances < MaxAdvances
    /\ advances' = advances + 1
    /\ files' = setLockout(files, now)
    /\ seen429' = seen429 \cup {now}
    /\ UNCHANGED <<now, calls, ev, faults>>
    /\ ServerFrame

\* another client's fetchAccounts stores the payload it read from upstream
OtherStore(data) ==
    /\ advances < MaxAdvances
    /\ advances' = advances + 1
    /\ files' = setCache(files, accountsKey, data, CACHE_TTL, now)
    /\ UNCHANGED <<now, calls, ev, seen429, faults>>
    /\ ServerFrame

\* time passes while no interval runs and no response is on its way
Wait(t) ==
    /\ intervals = 0
    /\ ~effectPending
    /\ ev.response = NoResponse
    /\ AdvanceClock(t)

RetryNext ==
    \/ \E load \in BagToSet(inflight) : PageRequest(load)
    \/ \E call \in BagToSet(calls), status \in Statuses : UpstreamRespond(call, status)
    \/ \E call \in BagToSet(calls), body \in Payloads \cup ErrorBodies : BodyRead(call, body)
    \/ \E load \in BagToSet(inflight) : Deliver(load)
    \/ CountdownEffect
    \/ SecondTick
    \/ Other429
    \/ \E data \in Payloads : OtherStore(data)
    \/ \E t \in NextTimes : Wait(t)

(***************************************************************************)
(* The specifications.  Each drives one part and leaves the others parked. *)
(***************************************************************************)
ServerParked == calls = EmptyBag /\ ev = NoEvent /\ seen429 = {} /\ faults = {}
KeysParked == derived = <<>>
ClientParked ==
    /\ countdown = 0
    /\ pendingAction = NoAction
    /\ error = Null
    /\ countdownRef = FALSE
    /\ intervals = 0
    /\ effectPending = FALSE
    /\ inflight = EmptyBag
    /\ quotaErrors = 0
    /\ invoked = {}
    /\ replaced = {}
    /\ dismissed = {}
    /\ cev = NoClientEvent
    /\ quotaAt = -1

ServerStart == ServerInit /\ CacheApiParked /\ KeysParked /\ ClientParked
Spec == ServerStart /\ [][ServerNext]_vars

FilesParked == now = 0 /\ advances = 0 /\ files = <<>>

SpecFaults == ServerStart /\ [][FaultsNext]_vars

SpecTenants == ServerStart /\ [][TenantsNext]_vars

RetryStart == ServerInit /\ ClientInit /\ CacheApiParked /\ KeysParked
SpecRetry == RetryStart /\ [][RetryNext]_vars

CacheApiStart == CacheApiInit /\ ServerParked /\ KeysParked /\ ClientParked
SpecCache == CacheApiStart /\ [][CacheApiNext]_vars

KeysStart == KeysInit /\ FilesParked /\ ServerParked /\ CacheApiParked /\ ClientParked
SpecKeys == KeysStart /\ [][KeysNext]_vars

ClientStart == ClientInit /\ FilesParked /\ ServerParked /\ CacheApiParked /\ KeysParked
SpecClient == ClientStart /\ [][ClientNext]_vars

\* the two layers side by side: a behaviour is one of the access layer behind
\* its routes or one of the page (the page's behaviours have no cache directory)
LayersStart == ServerStart \/ ClientStart
InServer == files # <<>>
InPage == files = <<>>
LayersNext ==
    \/ \E req \in ServerRequests : InServer /\ FetchStart(req)
    \/ \E call \in BagToSet(calls), status \in Statuses :
          InServer /\ UpstreamRespond(call, status)
    \/ \E call \in BagToSet(calls), body \in Payloads \cup ErrorBodies :
          InServer /\ BodyRead(call, body)
    \/ \E t \in IF InServer THEN NextTimes ELSE {} : AdvanceClock(t)
    \/ \E call \in UserLoads : InPage /\ UserLoad(call)
    \/ InPage /\ RetryButton
    \/ \E load \in BagToSet(inflight), response \in ClientResponses :
          InPage /\ RespondQuota(load, response)
    \/ \E load \in BagToSet(inflight), response \in ClientResponses :
          InPage /\ RespondOk(load, response)
    \/ \E load \in BagToSet(inflight), response \in ClientResponses :
          InPage /\ RespondFailure(load, response)
    \/ InPage /\ Tick
    \/ InPage /\ Dismiss
    \/ InPage /\ CountdownEffect
SpecLayers == LayersStart /\ [][LayersNext]_vars

(***************************************************************************)
(* Claims about the access layer, checked under Spec.                      *)
(***************************************************************************)

\* C1, lockout trip.  A fetcher call that misses the cache and so reaches
\* guardedFetch at a time inside the 60 s window opened by any 429 received
\* before it (the instant of the 429 itself included) fails with statusCode
\* 429 and issues no upstream call.
C1_LockoutTrip ==
    (/\ ev.op = "fetch"
     /\ ~ev.hit
     /\ \E t \in seen429 : t <= now /\ now < t + LOCKOUT_TTL)
        => (ev.outcome = "quota" /\ ev.statusCode = 429 /\ ~ev.upstream)

\* a call rejected in the last millisecond of a window
C1_Witness ==
    /\ ev.op = "fetch"
    /\ ev.outcome = "quota"
    /\ \E t \in seen429 : now = t + LOCKOUT_TTL - 1

\* C2, lockout recovery.  A guarded call that checks the lockout when the
\* record's expiry has been reached deletes the record, is not rejected and
\* calls upstream; and a lockout record only ever appears in a step that
\* receives a 429.
C2_LockoutRecovery ==
    [][/\ (/\ LockoutExists
           /\ now >= LockoutExpiry
           /\ ev'.op = "fetch"
           /\ ev'.lockoutChecked)
          => (/\ ~LockoutExists'
              /\ ev'.outcome = "pending"
              /\ ev'.upstream)
       /\ (~LockoutExists /\ LockoutExists')
          => (ev'.op = "response" /\ ev'.statusCode = 429)]_serverVars

\* a call at exactly the expiry that cleared the record and went upstream
C2_Witness ==
    /\ ev.op = "fetch"
    /\ ev.lockoutCleared
    /\ ev.upstream
    /\ ~LockoutExists
    /\ now = LOCKOUT_TTL

C5_CacheExpiry ==
    [][/\ (ev'.op = "fetch" /\ ev'.hit)
          => (/\ CacheRecordExists(getCacheFilePath(ev'.cacheKey))
              /\ now' <= CacheRecord(getCacheFilePath(ev'.cacheKey))["expiry"])
       /\ (/\ ev'.op = "fetch"
           /\ CacheRecordExists(getCacheFilePath(ev'.cacheKey))
           /\ now' > CacheRecord(getCacheFilePath(ev'.cacheKey))["expiry"])
          => (~ev'.hit /\ files'[getCacheFilePath(ev'.cacheKey)] = NoFile)
       /\ \A f \in CacheFileNames :
            (files[f] # NoFile /\ files'[f] = NoFile)
               => (/\ ev'.op = "fetch"
                   /\ getCacheFilePath(ev'.cacheKey) = f
                   /\ now' > CacheRecord(f)["expiry"])]_serverVars

\* a read one millisecond past the expiry that removed the record
C5_Witness ==
    /\ ev.op = "fetch"
    /\ ev.evicted
    /\ ~ev.hit
    /\ files[getCacheFilePath(ev.cacheKey)] = NoFile
    /\ now = CACHE_TTL + 1

\* the parameters that identify the resource asked for: everything but the
\* credential, an absent or empty cursor meaning the first page
SameResource(r1, r2) ==
    /\ r1.kind = r2.kind
    /\ r1.accountId = r2.accountId
    /\ r1.locationId = r2.locationId
    /\ \/ r1.pageToken = r2.pageToken
       \/ (~TruthyString(r1.pageToken) /\ ~TruthyString(r2.pageToken))

C4_CacheRoundTrip ==
    (/\ apiEv.op = "getCached"
     /\ written[apiEv.key] # NoWrite
     /\ now < written[apiEv.key].at + written[apiEv.key].ttlMs)
        => apiEv.value = written[apiEv.key].data

(***************************************************************************)
(* Claims about the key derivation, checked under SpecKeys.                *)
(***************************************************************************)

\* C6, key injectivity.  Two fetcher calls that differ in the resource kind,
\* the account id, the location id or the page (an absent or empty cursor
\* being the first page) use different cache files.
C6_KeyInjectivity ==
    \A i, j \in {1, 2} :
        (/\ derived[i] # NotDerived
         /\ derived[j] # NotDerived
         /\ ~SameResource(derived[i].req, derived[j].req))
            => derived[i].file # derived[j].file

(***************************************************************************)
(* Claims about the dashboard page, checked under SpecClient.              *)
(***************************************************************************)

\* C8, single pending retry: at most one interval timer is alive and the handle
\* is held exactly when it is; a held action that was overwritten while pending
\* is never invoked; and a handleQuotaError call made while an action is held
\* sets the countdown from its own retry hint, holds its own action in place of
\* the earlier one and leaves the single timer as it is.
C8_SinglePendingRetry ==
    [][ /\ intervals' <= 1
        /\ countdownRef' = (intervals' = 1)
        /\ invoked' \cap replaced' = {}
        /\ (cev'.op = "quota" /\ pendingAction # NoAction) =>
               /\ countdown' = Max(OrElse(cev'.hint, 60), RETRY_FLOOR)
               /\ pendingAction'.id = cev'.id
               /\ pendingAction'.id # pendingAction.id
               /\ pendingAction.id \in replaced'
               /\ intervals' = intervals
      ]_clientVars

\* a second quota error replaced a held action, and the later action has been
\* invoked at the end of its countdown
C8_Witness ==
    /\ replaced = {1}
    /\ invoked = {2}
    /\ cev.op = "retry"

\* C9, auto-retry fires exactly once: with an action held and the countdown at
\* zero the next step of the page is the effect's retry; a retry happens only
\* with the countdown at zero, for a held action neither invoked before nor
\* replaced; it clears the error and the held action and starts exactly one
\* load, with the kind, account id, location id and page token of the load that
\* failed.
C9_AutoRetryOnce ==
    [][ /\ (pendingAction # NoAction /\ countdown = 0) => cev'.op = "retry"
        /\ invoked' # invoked => cev'.op = "retry"
        /\ cev'.op = "retry" =>
               /\ countdown = 0
               /\ countdown' = 0
               /\ pendingAction # NoAction
               /\ pendingAction.id \notin invoked
               /\ pendingAction.id \notin replaced
               /\ invoked' = invoked \cup {pendingAction.id}
               /\ error' = Null
               /\ pendingAction' = NoAction
               /\ BagCardinality(inflight') = BagCardinality(inflight) + 1
               /\ \E load \in BagToSet(inflight') :
                      /\ load.call = pendingAction.failed
                      /\ CopiesIn(load, inflight') = CopiesIn(load, inflight) + 1
      ]_clientVars

\* the countdown of a failed load-more ran down and the effect started the
\* load again with its page token
C9_Witness ==
    /\ cev.op = "retry"
    /\ countdown = 0
    /\ error = Null
    /\ pendingAction = NoAction
    /\ \E load \in BagToSet(inflight) : load.call = LoadMoreReviewsCall

\* C10, countdown seed and tick: a quota error with retry hint r sets the
\* countdown to max(r, 60), a response without a hint counting as r = 0; a tick
\* happens only with the countdown above zero and lowers it by exactly 1; the
\* countdown is never below 0; with the countdown at 0 and its effect run, no
\* timer is alive.
C10_CountdownSeedAndTick ==
    [][ /\ cev'.op = "quota" => countdown' = Max(cev'.hint, 60)
        /\ cev'.op = "tick" => (countdown > 0 /\ countdown' = countdown - 1)
        /\ countdown' >= 0
        /\ (countdown' = 0 /\ ~effectPending') => intervals' = 0
      ]_clientVars

\* a countdown seeded by a hint below the floor was ticked down to zero
C10_Witness ==
    /\ cev.op = "tick"
    /\ countdown = 0
    /\ quotaErrors = 1
    /\ pendingAction # NoAction

\* C11, manual dismissal: a dismissal made while an action is held sets the
\* countdown to 0, clears the error and the held action, and starts no load;
\* the effect that follows it stops the timer and invokes nothing; and a
\* discarded action is never invoked, at dismissal or at any later step.
C11_ManualDismissal ==
    [][ /\ (cev'.op = "dismiss" /\ pendingAction # NoAction) =>
               /\ countdown' = 0
               /\ error' = Null
               /\ pendingAction' = NoAction
               /\ pendingAction.id \in dismissed'
               /\ invoked' = invoked
               /\ inflight' = inflight
        /\ (cev.op = "dismiss" /\ effectPending) =>
               /\ cev'.op = "effect"
               /\ intervals' = 0
               /\ ~countdownRef'
               /\ invoked' = invoked
        /\ invoked' \cap dismissed' = {}
      ]_clientVars

\* a held action was dismissed during its countdown; a later quota error's
\* action ran down and was invoked, the dismissed one never
C11_Witness ==
    /\ dismissed = {1}
    /\ invoked = {2}
    /\ cev.op = "retry"

(***************************************************************************)
(* Claims about the access layer's failures, checked under Spec.           *)
(***************************************************************************)

\* C12, fresh 429 hint: a call whose own upstream response had status 429 ends,
\* whatever the body of that response, as a quota error with statusCode 429 and
\* retryAfter equal to the cool-down length in seconds, 60.
C12_Fresh429Hint ==
    (ev.op = "body" /\ ev.pc = "body429") =>
        /\ ev.outcome = "quota"
        /\ ev.statusCode = 429
        /\ ev.retryAfter = Ceil1000(LOCKOUT_TTL)

C17_OtherUpstreamFailures ==
    [][ /\ (ev'.op = "response" /\ ev'.statusCode \notin {200, 429})
           => (/\ files' = files
               /\ seen429' = seen429
               /\ \E call \in BagToSet(calls') :
                      call.pc = "bodyError" /\ call.req = ev'.req)
        /\ (ev'.op = "body" /\ ev'.pc = "bodyError")
           => (/\ ev'.outcome = "error"
               /\ ev'.statusCode # 429
               /\ ev'.retryAfter = 0
               /\ ev'.value = Null
               /\ files' = files
               /\ seen429' = seen429)
      ]_serverVars

\* fetchLocations failed on a status 500 whose body had no message; there is no
\* lockout and no record
C17_Witness ==
    /\ ev.op = "body"
    /\ ev.pc = "bodyError"
    /\ ev.outcome = "error"
    /\ ev.message = MsgFailedToFetch("locations")
    /\ ~LockoutExists
    /\ ~CacheRecordExists(CacheFile(ev.req))

\* C18, unauthenticated requests.  A request that reaches a route without the
\* access-token cookie is answered 401 "Not authenticated" in a step that
\* makes no cache lookup, no lockout check and no upstream call and changes no
\* file, whether or not its key is warm; the page's load function, given that
\* response, goes to its catch block; and a load of the page that receives a
\* 401 leaves the countdown, the held action and the timer as they are and
\* starts no load.
C18_UnauthenticatedRequests ==
    [][ /\ cev'.status = 401 =>
          /\ cev'.op = "failure"
          /\ countdown' = countdown
          /\ pendingAction' = pendingAction
          /\ intervals' = intervals
          /\ BagCardinality(inflight') = BagCardinality(inflight) - 1
          /\ error' \in {error, MsgFriendlyAuth}
        /\ ev'.req.accessToken = NoCookie =>
          /\ ev'.op = "route"
          /\ ev'.response.status = 401
          /\ ev'.response.error = MsgNotAuthenticated
          /\ ~ev'.hit
          /\ ~ev'.evicted
          /\ ~ev'.lockoutChecked
          /\ ~ev'.upstream
          /\ files' = files
          /\ calls' = calls
          /\ seen429' = seen429
          /\ loadContinuation(ev'.response).do = "catch"
          /\ friendlyError(loadContinuation(ev'.response).message) = MsgFriendlyAuth
      ]_vars

\* the accounts route answered 401 while the accounts record was warm
C18_Witness ==
    /\ ev.op = "route"
    /\ ev.req = AccountsReq(NoCookie)
    /\ ev.response.status = 401
    /\ CacheRecordExists(CacheFile(ev.req))
    /\ now <= CacheRecord(CacheFile(ev.req))["expiry"]

\* C19, quota error propagation.  A call that ends as a quota error, raised by
\* the lockout pre-check or after a fresh upstream 429, has statusCode 429 and
\* is answered by its route with status 429, the error's retryAfter and the
\* error's message; a call that ends in any other error is answered with
\* status 500 and that error's message or the route's default text.
C19_QuotaErrorPropagation ==
    /\ ev.outcome = "quota" =>
          /\ \/ ev.op = "fetch" /\ ev.lockoutChecked /\ ~ev.upstream
             \/ ev.op = "body" /\ ev.pc = "body429"
          /\ ev.statusCode = 429
          /\ ev.retryAfter >= 1
          /\ ev.message # NoMessage
          /\ ev.response.status = 429
          /\ ev.response.retryAfter = ev.retryAfter
          /\ ev.response.error = ev.message
    /\ ev.outcome = "error" =>
          /\ ev.statusCode # 429
          /\ ev.response.status = 500
          /\ ev.response.retryAfter = 0
          /\ ev.response.error \in {ev.message, MsgFailedToFetch(ev.req.kind)}
    /\ ev.response.status = 429 => ev.outcome = "quota"

\* the locations route passed on a pre-check's quota error with one second left
C19_Witness ==
    /\ ev.op = "fetch"
    /\ ev.req.kind = "locations"
    /\ ev.outcome = "quota"
    /\ ev.retryAfter = 1
    /\ ev.response = [NoResponse EXCEPT !.status = 429, !.retryAfter = 1,
                                        !.error = MsgLockoutActive(1)]

(***************************************************************************)
(* Claims about failing storage, checked under SpecFaults.                 *)
(***************************************************************************)
Parsable(content) == content \notin {NoFile, Corrupt}

\* C14, cache read failures are misses.  No step of a fetcher's cache lookup
\* ends in an error; a call whose record is missing, cannot be read, cannot be
\* parsed, or is stale (whether or not its deletion succeeds) gets no value
\* from the cache and goes on to guardedFetch's lockout check as on a miss;
\* the record's file is left as it was, or removed when stale and deletable.
C14_CacheReadFailuresAreMisses ==
    [][ ev'.op = "fetch" =>
          LET f == CacheFile(ev'.req)
              stale == Parsable(files[f]) /\ ~ReadThrows(files[f])
                          /\ now > JsonParse(files[f])["expiry"]
          IN  /\ ev'.outcome \in {"ok", "pending", "quota"}
              /\ (files[f] = NoFile \/ ReadThrows(files[f]) \/ stale)
                    => /\ ~ev'.hit
                       /\ ev'.value = Null
                       /\ ev'.lockoutChecked
                       /\ ev'.outcome \in {"pending", "quota"}
                       /\ ev'.outcome = "pending" => ev'.upstream
                       /\ \/ files'[f] = files[f]
                          \/ stale /\ ~UnlinkThrows /\ files'[f] = NoFile
              /\ (stale /\ UnlinkThrows) => files'[f] = files[f]
      ]_serverVars

\* a call found a stale record it could not delete and went upstream
C14_Witness ==
    /\ ev.op = "fetch"
    /\ UnlinkThrows
    /\ Parsable(files[CacheFile(ev.req)])
    /\ now > JsonParse(files[CacheFile(ev.req)])["expiry"]
    /\ ~ev.hit
    /\ ev.upstream

\* C15, cache write failures are swallowed.  A fetcher that has read its
\* upstream's success payload while the cache write throws still ends as a
\* success returning that payload; the record's file is left as it was or cut
\* short, and the call is over.
C15_CacheWriteFailuresSwallowed ==
    [][ (ev'.op = "body" /\ ev'.pc = "bodyOk" /\ WriteThrows) =>
          LET f == CacheFile(ev'.req)
          IN  /\ ev'.outcome = "ok"
              /\ ev'.value \in Payloads
              /\ ev'.statusCode = 0
              /\ files'[f] \in {files[f], Corrupt}
              /\ \A g \in DOMAIN files : g # f => files'[g] = files[g]
              /\ BagCardinality(calls') = BagCardinality(calls) - 1
      ]_serverVars

\* a call returned its payload although the write of its record failed half way
C15_Witness ==
    /\ ev.op = "body"
    /\ ev.pc = "bodyOk"
    /\ ev.outcome = "ok"
    /\ ev.value = "payload1"
    /\ "torn" \in faults
    /\ files[CacheFile(ev.req)] = Corrupt

\* C16, lockout storage failures degrade to open.  A call that reaches the
\* lockout check while the record cannot be read or parsed is not rejected and
\* goes upstream, leaving the record as it is; a call that receives a 429 while
\* the record's write throws goes on to read the response's body and, the
\* record not having been written, ends as a quota error with statusCode 429;
\* no step ends in an error on account of the lockout's storage.
C16_LockoutFailuresDegradeOpen ==
    [][ /\ (/\ ev'.op = "fetch"
            /\ ev'.lockoutChecked
            /\ files[LOCKOUT_FILE] # NoFile
            /\ ReadThrows(files[LOCKOUT_FILE]))
           => (/\ ev'.outcome = "pending"
               /\ ev'.upstream
               /\ files'[LOCKOUT_FILE] = files[LOCKOUT_FILE])
        /\ ev'.op = "fetch" => ev'.outcome # "error"
        /\ (ev'.op = "response" /\ ev'.statusCode = 429 /\ WriteThrows)
           => (/\ ev'.outcome = "pending"
               /\ files'[LOCKOUT_FILE] \in {files[LOCKOUT_FILE], Corrupt}
               /\ \E call \in BagToSet(calls') : call.pc = "body429" /\ call.req = ev'.req)
        /\ (/\ ev.op = "response"
            /\ ev.statusCode = 429
            /\ files[LOCKOUT_FILE] #
                   JsonStringifyLockout([expiry |-> now + LOCKOUT_TTL, setAt |-> now])
            /\ ev'.op = "body"
            /\ ev'.pc = "body429"
            /\ ev'.req = ev.req)
           => (ev'.outcome = "quota" /\ ev'.statusCode = 429)
      ]_serverVars

(***************************************************************************)
(* Claims about both layers, checked under SpecLayers.                     *)
(***************************************************************************)
Fetching(bag) ==
    LET waiting == {call \in BagToSet(bag) : call.pc = "fetching"}
    IN  BagCardinality([call \in waiting |-> CopiesIn(call, bag)])

\* C20, only quota errors are retried automatically.  On the page, the
\* countdown rises or an action comes to be held only in a step in which a load
\* receives a response with status 429; a load that fails in any other way
\* (401, 400, 500, a fetch or a body that throws) changes neither countdown nor
\* held action nor timer and starts no load; loads start only by the user's
\* doing or by the effect invoking a held action.  In the access layer an
\* invocation waits on `fetch` at most once: only the step that starts it can
\* add a call waiting on upstream, and adds at most one.
C20_OnlyQuotaErrorsRetried ==
    [][ /\ (\/ countdown' > countdown
            \/ pendingAction' # pendingAction /\ pendingAction' # NoAction)
           => (cev'.op = "quota" /\ cev'.status = 429)
        /\ (cev'.op = "failure" \/ cev'.status \in {0, 400, 401, 500})
           => (/\ cev'.op = "failure"
               /\ cev'.status \in {0, 400, 401, 500}
               /\ countdown' = countdown
               /\ pendingAction' = pendingAction
               /\ intervals' = intervals
               /\ effectPending' = effectPending
               /\ BagCardinality(inflight') = BagCardinality(inflight) - 1)
        /\ BagCardinality(inflight') > BagCardinality(inflight)
           => (\/ cev'.op = "load"
               \/ cev'.op = "retry" /\ pendingAction # NoAction /\ countdown = 0)
        /\ Fetching(calls') > Fetching(calls)
           => (/\ ev'.op = "fetch"
               /\ ev'.upstream
               /\ calls' = Suspend(calls, Suspended("fetching", ev'.req, ev'.cacheKey)))
        /\ ev'.op \in {"response", "body"}
           => BagCardinality(calls') <= BagCardinality(calls)
      ]_vars

\* a load failed on a 500 whose text speaks of quota: the page shows the
\* rate-limit message and neither counts down nor holds an action
C20_Witness ==
    /\ cev.op = "failure"
    /\ cev.status = 500
    /\ error = MsgFriendlyRateLimit
    /\ countdown = 0
    /\ pendingAction = NoAction
    /\ intervals = 0

(***************************************************************************)
(* Further claims about the dashboard page, checked under SpecClient.      *)
(***************************************************************************)

\* C21, non-quota errors are shown: a load that fails in another way than by a
\* 429 response ends with an error message displayed, from whatever state it
\* was started, a state showing a quota error or a countdown included.
C21_NonQuotaErrorsShown ==
    [][ cev'.op = "failure" => error' # Null ]_clientVars

(***************************************************************************)
(* Further claims about the access layer, checked under Spec.              *)
(***************************************************************************)

\* C22, check order: every fetcher call checks the lockout, and does so before
\* it looks its key up in the cache.
C22_CheckOrder ==
    ev.op = "fetch" => (ev.order # <<>> /\ ev.order[1] = "isLockedOut")

\* C23, concurrent misses.  A call that finds no record under its key and no
\* lockout while another call for the same key is suspended goes upstream too;
\* a call that has read its success payload returns that payload and leaves
\* under its key exactly that payload with expiry now + CACHE_TTL, whatever
\* record another call wrote there before, touching no other file and no other
\* call; so every cache file is absent or one call's whole record, the last
\* writer's.
C23_ConcurrentMisses ==
    [][ /\ (/\ ev'.op = "fetch"
            /\ files[CacheFile(ev'.req)] = NoFile
            /\ ~LockoutExists
            /\ \E other \in BagToSet(calls) : other.cacheKey = CacheKey(ev'.req))
           => (/\ ev'.upstream
               /\ ev'.outcome = "pending"
               /\ files' = files
               /\ calls' = Suspend(calls, Suspended("fetching", ev'.req, CacheKey(ev'.req))))
        /\ (ev'.op = "body" /\ ev'.pc = "bodyOk")
           => (/\ ev'.outcome = "ok"
               /\ ev'.value \in Payloads
               /\ ev'.response.status = 200
               /\ ev'.response.data = ev'.value
               /\ files' = [files EXCEPT ![CacheFile(ev'.req)] =
                               JsonStringifyEntry([data |-> ev'.value,
                                                   expiry |-> now + CACHE_TTL])]
               /\ calls' = Resume(calls, Suspended("bodyOk", ev'.req, ev'.cacheKey)))
        /\ \A f \in CacheFileNames :
              \/ files'[f] = NoFile
              \/ LET entry == JsonParse(files'[f])
                 IN  /\ files'[f] = JsonStringifyEntry([data |-> entry["data"],
                                                       expiry |-> entry["expiry"]])
                     /\ entry["data"] \in Payloads
                     /\ entry["expiry"] - CACHE_TTL \in 0..now'
      ]_serverVars

\* two calls for the locations key both missed at time 0 and one stored its
\* payload then; the other has finished at the last instant of that record and
\* overwritten it with its payload2 (no other record was ever written)
C23_Witness ==
    /\ ev.op = "body"
    /\ ev.pc = "bodyOk"
    /\ ev.req.kind = "locations"
    /\ ev.value = "payload2"
    /\ files[CacheFile(AccountsReq("tokenX"))] = NoFile
    /\ calls = EmptyBag
    /\ now = CACHE_TTL
    /\ advances = 1
    /\ files[CacheFile(ev.req)] =
          JsonStringifyEntry([data |-> "payload2", expiry |-> 2 * CACHE_TTL])

Latest(times) == CHOOSE t \in times : \A u \in times : u <= t

\* C24, singleton lockout, replaced not accumulated.  The one lockout file is
\* absent or holds one whole record; a step that receives a 429 writes that
\* file, and no other, with expiry now + LOCKOUT_TTL, whatever record was
\* there; so while the window of some received 429 is open the record's expiry
\* is the time of the latest 429 plus LOCKOUT_TTL, and once all windows have
\* closed a record still present has expired.
C24_SingletonLockout ==
    [][ /\ (ev'.op = "response" /\ ev'.statusCode = 429)
           => (/\ files' = [files EXCEPT ![LOCKOUT_FILE] =
                               JsonStringifyLockout([expiry |-> now + LOCKOUT_TTL,
                                                     setAt |-> now])]
               /\ now \in seen429')
        /\ LockoutExists'
           => (/\ DOMAIN JsonParse(files'[LOCKOUT_FILE]) = {"expiry", "setAt"}
               /\ seen429' # {} => LockoutExpiry' = Latest(seen429') + LOCKOUT_TTL
               /\ seen429' = {} => LockoutExpiry' <= now')
        /\ seen429' # {} => LockoutExists'
      ]_serverVars

\* a 429 received in the last millisecond of an earlier 429's window replaced
\* the record: the expiry is one cool-down after the later 429
C24_Witness ==
    /\ ev.op = "response"
    /\ ev.statusCode = 429
    /\ seen429 = {0, LOCKOUT_TTL - 1}
    /\ now = LOCKOUT_TTL - 1
    /\ LockoutExpiry = 2 * LOCKOUT_TTL - 1

\* C25, lockout transitions.  The lockout file comes to hold a record, or
\* another record, only in a step that receives a 429; it loses its record only
\* in a fetcher's lockout check made at or after the record's expiry; a call
\* rejected by the check, a cache hit, a response with another status, the
\* reading of any body and the passage of time leave it as it is.
C25_LockoutTransitions ==
    [][ /\ (files'[LOCKOUT_FILE] # files[LOCKOUT_FILE] /\ files'[LOCKOUT_FILE] # NoFile)
           => (ev'.op = "response" /\ ev'.statusCode = 429)
        /\ (files[LOCKOUT_FILE] # NoFile /\ files'[LOCKOUT_FILE] = NoFile)
           => (/\ ev'.op = "fetch"
               /\ ev'.lockoutChecked
               /\ ev'.outcome = "pending"
               /\ now' = now
               /\ now >= LockoutExpiry)
        /\ (\/ ev'.op = "fetch" /\ ev'.outcome = "quota"
            \/ ev'.op = "fetch" /\ ev'.hit
            \/ ev'.op = "response" /\ ev'.statusCode # 429
            \/ ev'.op = "body"
            \/ ev'.op = "route"
            \/ now' # now)
           => files'[LOCKOUT_FILE] = files[LOCKOUT_FILE]
      ]_serverVars

\* a call that went upstream before the lockout got a 500 in the last
\* millisecond of the window: the record is the one the 429 wrote at time 0
C25_Witness ==
    /\ ev.op = "response"
    /\ ev.statusCode = 500
    /\ now = LOCKOUT_TTL - 1
    /\ seen429 = {0}
    /\ LockoutExists
    /\ LockoutExpiry = LOCKOUT_TTL

\* C26, remaining cool-down.  A call rejected by the lockout pre-check fails
\* with a quota error whose retryAfter is the record's expiry less the present
\* time, in seconds rounded up; that is at least 1 and at most 60; time never
\* runs backwards and the value is no greater than what a rejection earlier in
\* the record's life (at its writing, a second or a millisecond ago) would have
\* carried, so for one record it never rises from a rejected call to a later
\* one.
C26_RemainingCoolDown ==
    [][ /\ (ev'.op = "fetch" /\ ev'.outcome = "quota")
           => (/\ ev'.lockoutChecked
               /\ ~ev'.upstream
               /\ ev'.statusCode = 429
               /\ LockoutExists
               /\ files'[LOCKOUT_FILE] = files[LOCKOUT_FILE]
               /\ LockoutExpiry - now \in 1..LOCKOUT_TTL
               /\ 1000 * (ev'.retryAfter - 1) < LockoutExpiry - now
               /\ LockoutExpiry - now <= 1000 * ev'.retryAfter
               /\ ev'.retryAfter \in 1..60
               /\ ev'.message = MsgLockoutActive(ev'.retryAfter)
               /\ ev'.response.retryAfter = ev'.retryAfter
               /\ LET setAt == JsonParse(files[LOCKOUT_FILE])["setAt"]
                  IN  \A u \in {setAt, Max(setAt, now - 1000), Max(setAt, now - 1)} :
                         /\ u <= now
                         /\ Ceil1000(LockoutExpiry - u) >= ev'.retryAfter)
        /\ now' >= now
        /\ (/\ ev.op = "fetch" /\ ev.outcome = "quota"
            /\ ev'.op = "fetch" /\ ev'.outcome = "quota")
           => ev'.retryAfter <= ev.retryAfter
      ]_serverVars

\* fetchAccounts was rejected with one millisecond of the window left, and told
\* to wait one second
C26_Witness ==
    /\ ev.op = "fetch"
    /\ ev.req.kind = "accounts"
    /\ ev.outcome = "quota"
    /\ ev.retryAfter = 1
    /\ LockoutExpiry - now = 1

\* C27, failure leaves the cache unchanged.  A call ends in failure either in
\* its first step, rejected by the lockout, or on reading the body of a 429 or
\* of another failure response; the error it throws reaches its route, which
\* answers with that error's message and a failure status; and no step of such
\* a call changes a cache file, but that the lookup of its first step removes
\* the record of its own key when that record has expired.
C27_FailureLeavesCache ==
    [][ /\ ev'.outcome \in {"quota", "error"}
           => (/\ \/ ev'.op = "fetch" /\ ev'.lockoutChecked /\ ~ev'.upstream
                  \/ ev'.op = "body" /\ ev'.pc \in {"body429", "bodyError"}
               /\ ev'.value = Null
               /\ ev'.message # NoMessage
               /\ ev'.response.status \in {429, 500}
               /\ ev'.response.error = ev'.message
               /\ ev'.response.data = Null)
        /\ (ev'.op = "body" /\ ev'.pc \in {"body429", "bodyError"})
           => (ev'.outcome \in {"quota", "error"} /\ files' = files)
        /\ ev'.op = "response"
           => \A f \in CacheFileNames : files'[f] = files[f]
        /\ ev'.op = "fetch"
           => \A f \in CacheFileNames :
                 files'[f] # files[f]
                    => (/\ f = CacheFile(ev'.req)
                        /\ files'[f] = NoFile
                        /\ now > CacheRecord(f)["expiry"]
                        /\ ev'.evicted)
      ]_serverVars

\* fetchLocations went upstream a millisecond after the accounts record's
\* expiry and failed on a 500; it left no record of its own, and the expired
\* accounts record is still there
C27_Witness ==
    /\ ev.op = "body"
    /\ ev.pc = "bodyError"
    /\ ev.outcome = "error"
    /\ ev.req.kind = "locations"
    /\ now = CACHE_TTL + 1
    /\ files[CacheFile(ev.req)] = NoFile
    /\ files[CacheFile(AccountsReq("tokenX"))] =
          JsonStringifyEntry([data |-> "payload1", expiry |-> CACHE_TTL])

\* C28, bounded staleness.  A fetcher returns a payload either on reading it
\* from its upstream response, when it stores it with expiry now + CACHE_TTL,
\* or on a cache hit; a hit changes no file and returns the data of a record
\* whose expiry is not yet passed, so that the payload was read from upstream
\* at expiry - CACHE_TTL, no later than now and at most CACHE_TTL ago; and a
\* record's data or expiry changes only when a call stores its own payload.
C28_BoundedStaleness ==
    [][ /\ ev'.outcome = "ok"
           => \/ ev'.op = "fetch" /\ ev'.hit
              \/ ev'.op = "body" /\ ev'.pc = "bodyOk"
        /\ (ev'.op = "fetch" /\ ev'.hit)
           => LET entry == CacheRecord(CacheFile(ev'.req))
                  obtained == entry["expiry"] - CACHE_TTL
              IN  /\ files' = files
                  /\ ev'.value = entry["data"]
                  /\ obtained <= now
                  /\ now - obtained <= CACHE_TTL
        /\ (ev'.op = "body" /\ ev'.pc = "bodyOk")
           => files'[CacheFile(ev'.req)] =
                 JsonStringifyEntry([data |-> ev'.value, expiry |-> now + CACHE_TTL])
        /\ \A f \in CacheFileNames :
              (files[f] # NoFile /\ files'[f] \notin {NoFile, files[f]})
                 => (ev'.op = "body" /\ ev'.pc = "bodyOk" /\ f = CacheFile(ev'.req))
      ]_serverVars

\* a payload stored at time 0 was returned from the cache, ten minutes old, to
\* fetchLocations called with tokenY
C28_Witness ==
    /\ ev.op = "fetch"
    /\ ev.hit
    /\ ev.req = LocationsReq("tokenY", AcctSlash1)
    /\ ev.value = "payload2"
    /\ now = CACHE_TTL
    /\ files[CacheFile(ev.req)] =
          JsonStringifyEntry([data |-> "payload2", expiry |-> CACHE_TTL])
    /\ calls = EmptyBag

(***************************************************************************)
(* Claims about the page's invariants, checked under SpecClient.           *)
(***************************************************************************)

\* C29, counting down shows the quota error: in every state of the page with
\* the countdown above zero an error message is displayed, whatever loads the
\* user starts while the countdown runs.
C29_CountingDownShowsError ==
    countdown > 0 => error # Null

\* C30, countdown and pending action agree: whenever the countdown effect has
\* run, an action is held exactly if the countdown is above zero;
\* handleQuotaError sets both, the dismiss button clears both, and when a tick
\* brings the countdown to zero the effect that follows takes the held action
\* away (and invokes it).
C30_CountdownAndActionAgree ==
    [][ /\ ~effectPending => ((pendingAction # NoAction) <=> (countdown > 0))
        /\ ~effectPending' => ((pendingAction' # NoAction) <=> (countdown' > 0))
        /\ cev'.op = "quota" => (countdown' > 0 /\ pendingAction' # NoAction)
        /\ cev'.op = "dismiss" => (countdown' = 0 /\ pendingAction' = NoAction)
        /\ (cev'.op = "tick" /\ countdown' = 0 /\ pendingAction # NoAction)
           => (effectPending' /\ pendingAction' = pendingAction)
        /\ (effectPending /\ countdown = 0 /\ pendingAction # NoAction)
           => (/\ cev'.op = "retry"
               /\ pendingAction' = NoAction
               /\ countdown' = 0)
      ]_clientVars

\* the countdown of the first quota error ran to zero, the effect invoked the
\* held action and has run again: no action is held and nothing counts down
C30_Witness ==
    /\ ~effectPending
    /\ cev.op = "effect"
    /\ invoked = {1}
    /\ quotaErrors = 1
    /\ countdown = 0
    /\ pendingAction = NoAction
    /\ intervals = 0

(***************************************************************************)
(* Claims about credentials, checked under SpecTenants.                    *)
(***************************************************************************)

\* C32, credential isolation: every payload a fetcher returns to a caller was
\* obtained from upstream with the caller's own credential; a payload fetched
\* and cached with another credential is never returned to it.
C32_CredentialIsolation ==
    (ev.outcome = "ok" /\ ev.req.accessToken \in AccessTokens)
        => ev.value = PayloadOf(ev.req.accessToken)

(***************************************************************************)
(* Claims about the page and its routes together, checked under SpecRetry. *)
(***************************************************************************)

\* C31, retry outlasts the lockout.  The effect invokes a held action no sooner
\* than LOCKOUT_TTL after the page received the action's quota error, and so no
\* sooner does the retried load reach its fetcher; there the load is served
\* from the cache, or goes upstream, or is rejected by a lockout record written
\* after that quota error was received, never by a record that existed then:
\* with no 429 received since, it is not rejected.
C31_RetryOutlastsLockout ==
    [][ /\ cev'.op = "retry" => (quotaAt >= 0 /\ now >= quotaAt + LOCKOUT_TTL)
        /\ (ev'.op = "fetch" /\ quotaAt >= 0)
           => (/\ now >= quotaAt + LOCKOUT_TTL
               /\ ev'.outcome \in {"ok", "pending", "quota"}
               /\ ev'.outcome = "ok" => ev'.hit
               /\ ev'.outcome = "pending" => ev'.upstream
               /\ ev'.outcome = "quota"
                     => (/\ JsonParse(files[LOCKOUT_FILE])["setAt"] > quotaAt
                         /\ \E t \in seen429 : t > quotaAt)
               /\ (\A t \in seen429 : t <= quotaAt) => ev'.outcome # "quota")
      ]_vars

\* the page's own call received a 429; sixty ticks later, at the very expiry of
\* the record that 429 wrote, the retried load removed the record and went
\* upstream
C31_Witness ==
    /\ ev.op = "fetch"
    /\ invoked = {1}
    /\ quotaAt >= 0
    /\ now = quotaAt + LOCKOUT_TTL
    /\ ev.lockoutCleared
    /\ ev.upstream
    /\ ~LockoutExists

====
